---- MODULE Spec2Model ----
(***************************************************************************)
(* Model of mcp-deepl: the DeepLClient wrapper (api_client.py) and the MCP *)
(* tool layer with its process-wide client handle (server.py).             *)
(*                                                                         *)
(* Python values are encoded as follows.  An optional value is a sequence  *)
(* of length at most one: None is << >> and a present value x is <<x>>.    *)
(* The vendor SDK (package deepl) is the environment: each vendor call     *)
(* either returns a value of the shape the SDK documents or raises an      *)
(* exception of the deepl.DeepLException hierarchy.                        *)
(***************************************************************************)
EXTENDS Integers, Sequences, FiniteSets, TLC

VARIABLES
    env,        \* os.environ.get("DEEPL_API_KEY")
    _client,    \* server.py: the global client instance
    handles,    \* number of DeepLClient instances get_client has constructed
    fs,         \* the local files: path -> size, None when the file is absent
    last,       \* the call that has just finished: arguments, vendor calls, outcome
    running,    \* the server process has not been shut down
    glossaries, \* the vendor's glossary store: glossary id -> GlossaryInfo or None
    lifecycle,  \* a direct caller's locals: the Glossary it created and what get returned
    tasks       \* the tool calls running concurrently on the event loop

vars == <<env, _client, handles, fs, last, running, glossaries, lifecycle, tasks>>

----------------------------------------------------------------------------
(* Bounds of the model *)

MaxBatch == 2
MaxHandles == 2
MaxLangs == 2
MaxGlossaries == 1

----------------------------------------------------------------------------
(* Python values *)

None == << >>
Some(x) == <<x>>

\* bool(s) of an optional string: None and "" are falsy
TruthyStr(o) == o # None /\ o[1] # ""

\* bool(o) of an optional object without __bool__/__len__
TruthyObj(o) == o # None

\* sequences over S of length at most n
SeqUpTo(S, n) == UNION {[1..k -> S] : k \in 0..n}

----------------------------------------------------------------------------
(* The vendor SDK's exception hierarchy, as far as the client inspects it *)

ExcClasses ==
    {"DeepLException", "AuthorizationException", "QuotaExceededException",
     "TooManyRequestsException", "ConnectionException"}

Msgs == {"Invalid authentication", "Quota exceeded"}

VendorExceptions == [cls : ExcClasses, msg : Msgs]

\* isinstance(e, deepl.<cls>): every class derives directly from DeepLException
IsInstance(e, cls) == e.cls = cls \/ cls = "DeepLException"

\* str(e) of a vendor exception is the message it was constructed with
Str(e) == e.msg

Raise(e) == [raised |-> TRUE, exc |-> e]
Return(v) == [raised |-> FALSE, value |-> v]

\* DeepLAPIError(status, message) raised "from e": details defaults to None
DeepLAPIError(status, message, e) ==
    [kind |-> "DeepLAPIError", status |-> status, message |-> message,
     details |-> None, cause |-> e]

ValueError(message) == [kind |-> "ValueError", message |-> message]

Returned(v) == [kind |-> "return", value |-> v]

----------------------------------------------------------------------------
(* Inputs *)

GlossaryIds == {"g1", "g2"}

Keys == {"key1", "key2"}
EnvValues == {None, Some("")} \cup {Some(k) : k \in Keys}

Texts == {"Hello", "World"}
TextInputs ==
    {[shape |-> "str", items |-> <<t>>] : t \in Texts}
    \cup {[shape |-> "list", items |-> s] : s \in SeqUpTo(Texts, MaxBatch)}

\* a text of n characters
Chars(n) == [i \in 1..n |-> ToString(i % 10)]
\* the number of characters detect_language sends, and the number it echoes
SentChars == 1000
EchoedChars == 100
\* texts given to detect_language: around the two limits
DetectTexts == {Chars(n) : n \in {0, 5, EchoedChars, EchoedChars + 1, SentChars, SentChars + 1}}

\* what the vendor reports for one translated segment
TextResults ==
    {[text |-> "Hallo", detected_source_lang |-> "EN"],
     [text |-> "Welt", detected_source_lang |-> "FR"]}

\* deepl.Translator.translate_text: one TextResult for a str, a list with
\* one TextResult per element for a list
VendorTranslateResults(text) ==
    IF text.shape = "str"
    THEN {[shape |-> "object", items |-> <<r>>] : r \in TextResults}
    ELSE {[shape |-> "list", items |-> s] : s \in [1..Len(text.items) -> TextResults]}

\* what detect_language is prepared to get back for its one text: a single
\* TextResult, or a list (possibly empty)
VendorDetectResults ==
    {[shape |-> "object", items |-> <<r>>] : r \in TextResults}
    \cup {[shape |-> "list", items |-> s] : s \in SeqUpTo(TextResults, 1)}

\* deepl.Language descriptors.  The attribute supports_formality is None
\* when the descriptor has no such attribute and Some(v) when it has it
\* with value v (itself None or Some(boolean)).
SourceLanguages ==
    [code : {"EN", "DE"}, name : {"Language"}, supports_formality : {None, Some(None)}]
TargetLanguages ==
    [code : {"DE", "FR"}, name : {"Language"},
     supports_formality : {Some(Some(TRUE)), Some(Some(FALSE))}]

\* deepl.Usage: each counter is None or a Detail whose count and limit are optional
UsageDetails ==
    {None,
     Some([count |-> None, limit |-> None]),
     Some([count |-> Some(0), limit |-> Some(0)]),
     Some([count |-> Some(5), limit |-> Some(10)]),
     Some([count |-> Some(5), limit |-> None])}
Usages == [character : UsageDetails, document : UsageDetails, team_document : UsageDetails]

\* datetime values of one fixed day and time: microsecond and UTC offset
\* (minutes, None for a naive datetime) vary
DateTimes ==
    {[microsecond |-> 0, utcoffset |-> None],
     [microsecond |-> 0, utcoffset |-> Some(0)],
     [microsecond |-> 500000, utcoffset |-> Some(120)]}

\* deepl.GlossaryInfo
GlossaryInfos ==
    [glossary_id : GlossaryIds, name : {"Test Glossary"}, ready : BOOLEAN,
     source_lang : {"EN"}, target_lang : {"DE"}, creation_time : DateTimes,
     entry_count : {0, 2}]

\* deepl.DocumentStatus as far as the client reads it
DocumentStatuses ==
    [done : BOOLEAN, error_message : {None, Some(""), Some("Source file is corrupt")},
     seconds_remaining : {None, Some(0), Some(5)},
     billed_characters : {None, Some(100)}]

DocumentIds == {"doc1", "doc2"}
DocumentKeys == {"k1"}
\* number of bytes the vendor writes for a translated document
DocSizes == {0, 7}

\* deepl.DocumentHandle values the vendor hands out on upload
DocumentHandles ==
    {[document_id |-> "doc1", document_key |-> "k1"],
     [document_id |-> "doc2", document_key |-> "k2"]}

\* paths on the local disk: a document that exists, a path downloads are
\* written to, and a path at which there is no file
Paths == {"doc.docx", "out.docx", "missing.docx"}
OutputPaths == {"out.docx"}
\* size in bytes of the document that exists from the start
DocLength == 3

VendorResponses(values) ==
    {Return(v) : v \in values} \cup {Raise(e) : e \in VendorExceptions}

VendorCall(method, args, resp) == [method |-> method, args |-> args, resp |-> resp]

----------------------------------------------------------------------------
(* DeepLClient: construction *)

\* variant: the translator is created before the token is checked
DeepLClient_init_translator_first(api_token, e, id) ==
    LET tok == IF TruthyStr(api_token) THEN api_token ELSE e
    IN  IF ~TruthyStr(tok)
        THEN [out |-> ValueError("DEEPL_API_KEY must be provided or set in environment"),
              translators |-> 1]
        ELSE [out |-> Returned([id |-> id, api_token |-> tok[1],
                                _translator |-> [auth_key |-> tok[1],
                                                 _client |-> Some([closed |-> FALSE])]]),
              translators |-> 1]

\* DeepLClient.__init__: the outcome of DeepLClient(api_token) under
\* environment value e; id names the instance that would be created
DeepLClient_init(api_token, e, id) ==
    LET tok == IF TruthyStr(api_token) THEN api_token ELSE e
    IN  IF ~TruthyStr(tok)
        THEN [out |-> ValueError("DEEPL_API_KEY must be provided or set in environment"),
              translators |-> 0]
        ELSE [out |-> Returned([id |-> id, api_token |-> tok[1],
                                _translator |-> [auth_key |-> tok[1],
                                                 _client |-> Some([closed |-> FALSE])]]),
              translators |-> 1]

\* DeepLClient.close on the client object c: the translator's HTTP client,
\* when there is one, is closed; the translator stays in place
DeepLClient_close(c) ==
    IF TruthyObj(c._translator._client)
    THEN [c EXCEPT !._translator._client = Some([closed |-> TRUE])]
    ELSE c

\* variant: close is skipped when the body raised
DeepLClient_aexit_only_on_success(c, exc) ==
    IF exc = None
    THEN [client |-> DeepLClient_close(c), closes |-> 1, out |-> Returned(None)]
    ELSE [client |-> c, closes |-> 0, out |-> exc[1]]

\* DeepLClient.__aexit__(*args) on the client object c, exc the exception the
\* body raised or None: `await self.close()`; it returns None, so that an
\* exception of the body goes on to the caller
DeepLClient_aexit(c, exc) ==
    [client |-> DeepLClient_close(c), closes |-> 1,
     out |-> IF exc = None THEN Returned(None) ELSE exc[1]]

----------------------------------------------------------------------------
(* DeepLClient: translation *)

\* translate_text, lines 92-98: the split_sentences value handed to the SDK
\* variant: every value is handed to the vendor as it came
split_sentences_param_passthrough(split_sentences) ==
    Some(split_sentences)

split_sentences_param(split_sentences) ==
    IF split_sentences = "0" THEN Some("0")
    ELSE IF split_sentences = "1" THEN Some("1")
    ELSE IF split_sentences = "nonewlines" THEN Some("nonewlines")
    ELSE None

ToTranslation(r) ==
    [detected_source_language |-> Some(r.detected_source_lang), text |-> r.text]

\* variant: a list result is cut down to its first element
ToTranslations_first_only(result) ==
    IF result.shape = "list" /\ Len(result.items) = 0
    THEN << >>
    ELSE <<ToTranslation(result.items[1])>>

\* "Convert result to our response model": isinstance(result, list) or not
ToTranslations(result) ==
    IF result.shape = "list"
    THEN [i \in 1..Len(result.items) |-> ToTranslation(result.items[i])]
    ELSE <<ToTranslation(result.items[1])>>

\* variant: an authorization failure is reported as 401
translate_text_status_auth401(e) ==
    IF IsInstance(e, "AuthorizationException") THEN 401
    ELSE IF IsInstance(e, "QuotaExceededException") THEN 456
    ELSE IF IsInstance(e, "TooManyRequestsException") THEN 429
    ELSE 500

\* variant: the branch for TooManyRequestsException is missing
translate_text_status_no429(e) ==
    IF IsInstance(e, "AuthorizationException") THEN 403
    ELSE IF IsInstance(e, "QuotaExceededException") THEN 456
    ELSE 500

\* translate_text, lines 132-138
translate_text_status(e) ==
    IF IsInstance(e, "AuthorizationException") THEN 403
    ELSE IF IsInstance(e, "QuotaExceededException") THEN 456
    ELSE IF IsInstance(e, "TooManyRequestsException") THEN 429
    ELSE 500

DeepLClient_translate_text(text, target_lang, source_lang, formality, preserve_formatting, tag_handling, split_sentences, resp) ==
    LET call == VendorCall("translate_text",
                    [text |-> text, target_lang |-> target_lang,
                     source_lang |-> source_lang, formality |-> formality,
                     preserve_formatting |-> preserve_formatting,
                     tag_handling |-> tag_handling,
                     split_sentences |-> split_sentences_param(split_sentences)],
                    resp)
    IN  [calls |-> <<call>>,
         out |-> IF resp.raised
                 THEN DeepLAPIError(translate_text_status(resp.exc), Str(resp.exc), resp.exc)
                 ELSE Returned([translations |-> ToTranslations(resp.value)])]

\* translate_with_glossary, lines 374-388
\* variant: a list result is cut down to its first element
glossary_ToTranslations_first_only(result) ==
    IF result.shape = "list" /\ Len(result.items) = 0
    THEN << >>
    ELSE <<ToTranslation(result.items[1])>>

\* "Convert result to our response model" of translate_with_glossary
glossary_ToTranslations(result) ==
    IF result.shape = "list"
    THEN [i \in 1..Len(result.items) |-> ToTranslation(result.items[i])]
    ELSE <<ToTranslation(result.items[1])>>

\* translate_with_glossary, lines 393-397
translate_with_glossary_status(e) ==
    IF IsInstance(e, "AuthorizationException") THEN 403
    ELSE IF IsInstance(e, "QuotaExceededException") THEN 456
    ELSE 500

DeepLClient_translate_with_glossary(text, target_lang, glossary_id, source_lang, formality, resp) ==
    LET call == VendorCall("translate_text",
                    [text |-> text, target_lang |-> target_lang,
                     source_lang |-> source_lang, formality |-> formality,
                     glossary |-> glossary_id],
                    resp)
    IN  [calls |-> <<call>>,
         out |-> IF resp.raised
                 THEN DeepLAPIError(translate_with_glossary_status(resp.exc),
                                    Str(resp.exc), resp.exc)
                 ELSE Returned([translations |-> glossary_ToTranslations(resp.value)])]

----------------------------------------------------------------------------
(* DeepLClient: language detection *)

\* text[:n]
Prefix(text, n) == SubSeq(text, 1, IF Len(text) < n THEN Len(text) ELSE n)

\* variant: a vendor failure is answered with "no language detected"
DeepLClient_detect_language_swallows(text, resp) ==
    LET call == VendorCall("translate_text",
                    [text |-> Prefix(text, SentChars), target_lang |-> "EN-US"], resp)
        echoed == IF Len(text) > EchoedChars
                  THEN Prefix(text, EchoedChars) \o <<".", ".", ".">> ELSE text
    IN  [calls |-> <<call>>,
         out |-> IF resp.raised
                 THEN Returned([detected_language |-> None, text |-> echoed])
                 ELSE Returned([detected_language |->
                                   IF resp.value.shape = "list"
                                   THEN IF Len(resp.value.items) > 0
                                        THEN Some(resp.value.items[1].detected_source_lang)
                                        ELSE None
                                   ELSE Some(resp.value.items[1].detected_source_lang),
                                text |-> echoed])]

\* variant: the status is chosen as translate_text chooses it
DeepLClient_detect_language_finegrained(text, resp) ==
    LET call == VendorCall("translate_text",
                    [text |-> Prefix(text, SentChars), target_lang |-> "EN-US"], resp)
        echoed == IF Len(text) > EchoedChars
                  THEN Prefix(text, EchoedChars) \o <<".", ".", ".">> ELSE text
    IN  [calls |-> <<call>>,
         out |-> IF resp.raised
                 THEN DeepLAPIError(translate_text_status(resp.exc), Str(resp.exc), resp.exc)
                 ELSE Returned([detected_language |->
                                   IF resp.value.shape = "list"
                                   THEN IF Len(resp.value.items) > 0
                                        THEN Some(resp.value.items[1].detected_source_lang)
                                        ELSE None
                                   ELSE Some(resp.value.items[1].detected_source_lang),
                                text |-> echoed])]

\* variant: a text of exactly the echoed length is cut as well
DeepLClient_detect_language_ellipsis_at_limit(text, resp) ==
    LET call == VendorCall("translate_text",
                    [text |-> Prefix(text, SentChars), target_lang |-> "EN-US"], resp)
        echoed == IF Len(text) >= EchoedChars
                  THEN Prefix(text, EchoedChars) \o <<".", ".", ".">> ELSE text
    IN  [calls |-> <<call>>,
         out |-> IF resp.raised
                 THEN DeepLAPIError(500, Str(resp.exc), resp.exc)
                 ELSE Returned([detected_language |->
                                   IF resp.value.shape = "list"
                                   THEN IF Len(resp.value.items) > 0
                                        THEN Some(resp.value.items[1].detected_source_lang)
                                        ELSE None
                                   ELSE Some(resp.value.items[1].detected_source_lang),
                                text |-> echoed])]

DeepLClient_detect_language(text, resp) ==
    LET call == VendorCall("translate_text",
                    [text |-> Prefix(text, SentChars), target_lang |-> "EN-US"], resp)
        echoed == IF Len(text) > EchoedChars
                  THEN Prefix(text, EchoedChars) \o <<".", ".", ".">> ELSE text
    IN  [calls |-> <<call>>,
         out |-> IF resp.raised
                 THEN DeepLAPIError(500, Str(resp.exc), resp.exc)
                 ELSE Returned([detected_language |->
                                   IF resp.value.shape = "list"
                                   THEN IF Len(resp.value.items) > 0
                                        THEN Some(resp.value.items[1].detected_source_lang)
                                        ELSE None
                                   ELSE Some(resp.value.items[1].detected_source_lang),
                                text |-> echoed])]

----------------------------------------------------------------------------
(* DeepLClient: languages and usage *)

\* getattr(obj, name, default) on an attribute encoded as above
getattr(attr, default) == IF attr = None THEN default ELSE attr[1]

\* variant: a missing attribute is reported as False
ToLanguage_default_false(lang) ==
    [language |-> lang.code, name |-> lang.name,
     supports_formality |-> getattr(lang.supports_formality, Some(FALSE))]

\* list_languages, lines 187-194: one entry of the response
ToLanguage(lang) ==
    [language |-> lang.code, name |-> lang.name,
     supports_formality |-> getattr(lang.supports_formality, None)]

\* list_languages, lines 182-185: the SDK method asked for the listing
\* variant: the flag is compared without regard to case
languages_method_ignores_case(language_type) ==
    IF language_type \in {"source", "SOURCE"} THEN "get_source_languages"
    ELSE "get_target_languages"

languages_method(language_type) ==
    IF language_type = "source" THEN "get_source_languages" ELSE "get_target_languages"

DeepLClient_list_languages(language_type, resp) ==
    LET call == VendorCall(languages_method(language_type), << >>, resp)
    IN  [calls |-> <<call>>,
         out |-> IF resp.raised
                 THEN DeepLAPIError(500, Str(resp.exc), resp.exc)
                 ELSE Returned([languages |->
                          [i \in 1..Len(resp.value) |-> ToLanguage(resp.value[i])]])]

\* `x or 0` on an optional integer
OrZero(x) == IF x = None \/ x[1] = 0 THEN 0 ELSE x[1]

\* get_usage, lines 213-218
character_count(usage) ==
    IF TruthyObj(usage.character) THEN OrZero(usage.character[1].count) ELSE 0
character_limit(usage) ==
    IF TruthyObj(usage.character) THEN OrZero(usage.character[1].limit) ELSE 0

\* variant: a missing counter is reported as zero
detail_count_zeroed(d) == IF TruthyObj(d) THEN d[1].count ELSE Some(0)

\* get_usage, lines 223-226: `d.count if d else None`, `d.limit if d else None`
detail_count(d) == IF TruthyObj(d) THEN d[1].count ELSE None
detail_limit(d) == IF TruthyObj(d) THEN d[1].limit ELSE None

\* variant: get_usage with the status mapping of translate_text
DeepLClient_get_usage_finegrained(resp) ==
    LET call == VendorCall("get_usage", << >>, resp)
        usage == resp.value
    IN  [calls |-> <<call>>,
         out |-> IF resp.raised
                 THEN DeepLAPIError(translate_text_status(resp.exc), Str(resp.exc), resp.exc)
                 ELSE Returned(
                        [character_count |-> Some(character_count(usage)),
                         character_limit |-> Some(character_limit(usage)),
                         document_count |-> detail_count(usage.document),
                         document_limit |-> detail_limit(usage.document),
                         team_document_count |-> detail_count(usage.team_document),
                         team_document_limit |-> detail_limit(usage.team_document)])]

DeepLClient_get_usage(resp) ==
    LET call == VendorCall("get_usage", << >>, resp)
        usage == resp.value
    IN  [calls |-> <<call>>,
         out |-> IF resp.raised
                 THEN DeepLAPIError(500, Str(resp.exc), resp.exc)
                 ELSE Returned(
                        [character_count |-> Some(character_count(usage)),
                         character_limit |-> Some(character_limit(usage)),
                         document_count |-> detail_count(usage.document),
                         document_limit |-> detail_limit(usage.document),
                         team_document_count |-> detail_count(usage.team_document),
                         team_document_limit |-> detail_limit(usage.team_document)])]

----------------------------------------------------------------------------
(* DeepLClient: glossaries *)

TwoDigits(n) == IF n < 10 THEN "0" \o ToString(n) ELSE ToString(n)

\* datetime.isoformat(): the fraction is printed only when the microsecond is
\* not zero, the offset only for an aware datetime
isoformat(dt) ==
    "2025-10-14T12:00:00"
    \o (IF dt.microsecond = 0 THEN "" ELSE "." \o ToString(dt.microsecond))
    \o (IF dt.utcoffset = None THEN ""
        ELSE "+" \o TwoDigits(dt.utcoffset[1] \div 60) \o ":"
                 \o TwoDigits(dt.utcoffset[1] % 60))

\* the field projection of list_glossaries, create_glossary and get_glossary
ToGlossary(g) ==
    [glossary_id |-> g.glossary_id, name |-> g.name, ready |-> g.ready,
     source_lang |-> g.source_lang, target_lang |-> g.target_lang,
     creation_time |-> isoformat(g.creation_time), entry_count |-> g.entry_count]

\* variant: a failed listing is tried a second time before giving up
DeepLClient_list_glossaries_retry(resp) ==
    LET call == VendorCall("list_glossaries", << >>, resp)
    IN  [calls |-> IF resp.raised THEN <<call, call>> ELSE <<call>>,
         out |-> IF resp.raised
                 THEN DeepLAPIError(500, Str(resp.exc), resp.exc)
                 ELSE Returned([glossaries |->
                          [i \in 1..Len(resp.value) |-> ToGlossary(resp.value[i])]])]

DeepLClient_list_glossaries(resp) ==
    LET call == VendorCall("list_glossaries", << >>, resp)
    IN  [calls |-> <<call>>,
         out |-> IF resp.raised
                 THEN DeepLAPIError(500, Str(resp.exc), resp.exc)
                 ELSE Returned([glossaries |->
                          [i \in 1..Len(resp.value) |-> ToGlossary(resp.value[i])]])]

DeepLClient_create_glossary(name, source_lang, target_lang, entries, entries_format, resp) ==
    LET call == VendorCall("create_glossary",
                    [name |-> name, source_lang |-> source_lang,
                     target_lang |-> target_lang, entries |-> entries], resp)
    IN  [calls |-> <<call>>,
         out |-> IF resp.raised
                 THEN DeepLAPIError(500, Str(resp.exc), resp.exc)
                 ELSE Returned(ToGlossary(resp.value))]

\* variant: the two language fields are filled from each other
DeepLClient_get_glossary_langs_swapped(glossary_id, resp) ==
    LET call == VendorCall("get_glossary", [glossary_id |-> glossary_id], resp)
    IN  [calls |-> <<call>>,
         out |-> IF resp.raised
                 THEN DeepLAPIError(500, Str(resp.exc), resp.exc)
                 ELSE Returned([ToGlossary(resp.value) EXCEPT
                                    !.source_lang = resp.value.target_lang,
                                    !.target_lang = resp.value.source_lang])]

DeepLClient_get_glossary(glossary_id, resp) ==
    LET call == VendorCall("get_glossary", [glossary_id |-> glossary_id], resp)
    IN  [calls |-> <<call>>,
         out |-> IF resp.raised
                 THEN DeepLAPIError(500, Str(resp.exc), resp.exc)
                 ELSE Returned(ToGlossary(resp.value))]

\* variant: a failed delete is answered with success = false
DeepLClient_delete_glossary_reports_false(glossary_id, resp) ==
    LET call == VendorCall("delete_glossary", [glossary_id |-> glossary_id], resp)
    IN  [calls |-> <<call>>,
         out |-> IF resp.raised
                 THEN Returned([success |-> FALSE, glossary_id |-> glossary_id])
                 ELSE Returned([success |-> TRUE, glossary_id |-> glossary_id])]

DeepLClient_delete_glossary(glossary_id, resp) ==
    LET call == VendorCall("delete_glossary", [glossary_id |-> glossary_id], resp)
    IN  [calls |-> <<call>>,
         out |-> IF resp.raised
                 THEN DeepLAPIError(500, Str(resp.exc), resp.exc)
                 ELSE Returned([success |-> TRUE, glossary_id |-> glossary_id])]

----------------------------------------------------------------------------
(* DeepLClient: documents *)

\* the FileNotFoundError open() raises for path
FileNotFoundError(path) == [cls |-> "FileNotFoundError", msg |-> "No such file or directory: " \o path]

\* variant: a missing file is reported like a vendor failure
DeepLClient_upload_document_missing_500(document_path, target_lang, source_lang, formality, filename, files, resp) ==
    IF files[document_path] = None
    THEN [calls |-> << >>,
          out |-> DeepLAPIError(500, "Document not found: " \o document_path,
                                FileNotFoundError(document_path))]
    ELSE LET call == VendorCall("translate_document_upload",
                        [file |-> document_path, target_lang |-> target_lang,
                         source_lang |-> source_lang, formality |-> formality,
                         filename |-> filename], resp)
         IN  [calls |-> <<call>>,
              out |-> IF resp.raised
                      THEN DeepLAPIError(500, Str(resp.exc), resp.exc)
                      ELSE Returned([document_id |-> resp.value.document_id,
                                     document_key |-> resp.value.document_key])]

\* upload_document on the files `files`: open(document_path, "rb") raises
\* FileNotFoundError before the vendor is called when there is no such file
DeepLClient_upload_document(document_path, target_lang, source_lang, formality, filename, files, resp) ==
    IF files[document_path] = None
    THEN [calls |-> << >>,
          out |-> DeepLAPIError(404, "Document not found: " \o document_path,
                                FileNotFoundError(document_path))]
    ELSE LET call == VendorCall("translate_document_upload",
                        [file |-> document_path, target_lang |-> target_lang,
                         source_lang |-> source_lang, formality |-> formality,
                         filename |-> filename], resp)
         IN  [calls |-> <<call>>,
              out |-> IF resp.raised
                      THEN DeepLAPIError(500, Str(resp.exc), resp.exc)
                      ELSE Returned([document_id |-> resp.value.document_id,
                                     document_key |-> resp.value.document_key])]

\* variant: the error message is tested before the completion flag
status_str_error_first(status) ==
    IF TruthyStr(status.error_message) THEN "error"
    ELSE IF status.done THEN "done"
    ELSE IF status.seconds_remaining # None THEN "translating"
    ELSE "queued"

\* get_document_status, lines 460-466
status_str(status) ==
    IF status.done THEN "done"
    ELSE IF TruthyStr(status.error_message) THEN "error"
    ELSE IF status.seconds_remaining # None THEN "translating"
    ELSE "queued"

\* variant: the error message is copied as the vendor gave it
DeepLClient_get_document_status_raw_message(document_id, document_key, resp) ==
    LET handle == [document_id |-> document_id, document_key |-> document_key]
        call == VendorCall("translate_document_get_status", [handle |-> handle], resp)
        status == resp.value
    IN  [calls |-> <<call>>,
         out |-> IF resp.raised
                 THEN DeepLAPIError(500, Str(resp.exc), resp.exc)
                 ELSE Returned(
                        [document_id |-> document_id,
                         status |-> status_str(status),
                         seconds_remaining |-> status.seconds_remaining,
                         billed_characters |-> status.billed_characters,
                         error_message |-> status.error_message])]

DeepLClient_get_document_status(document_id, document_key, resp) ==
    LET handle == [document_id |-> document_id, document_key |-> document_key]
        call == VendorCall("translate_document_get_status", [handle |-> handle], resp)
        status == resp.value
    IN  [calls |-> <<call>>,
         out |-> IF resp.raised
                 THEN DeepLAPIError(500, Str(resp.exc), resp.exc)
                 ELSE Returned(
                        [document_id |-> document_id,
                         status |-> status_str(status),
                         seconds_remaining |-> status.seconds_remaining,
                         billed_characters |-> status.billed_characters,
                         error_message |-> IF TruthyStr(status.error_message)
                                           THEN Some(status.error_message[1])
                                           ELSE None])]

\* open(path, "wb"): the file exists afterwards and is empty
open_wb(files, path) == [files EXCEPT ![path] = Some(0)]

\* the vendor writes n bytes to the file opened at path
write_bytes(files, path, n) == [files EXCEPT ![path] = Some(files[path][1] + n)]

\* os.path.getsize(path)
getsize(files, path) == files[path][1]

\* io.BytesIO(): an empty buffer, as the number of bytes it holds; the vendor
\* writes n bytes to it; buffer.tell() is the position after the last write
BytesIO == 0
write_buffer(buffer, n) == buffer + n
tell(buffer) == buffer

\* variant: the size is read before the vendor has written the document
DeepLClient_download_translated_document_size_early(document_id, document_key, output_path, files, resp) ==
    LET handle == [document_id |-> document_id, document_key |-> document_key]
        to_file == TruthyStr(output_path)
        call == VendorCall("translate_document_download",
                    [handle |-> handle,
                     output |-> IF to_file THEN output_path[1] ELSE "BytesIO"], resp)
        opened == IF to_file THEN open_wb(files, output_path[1]) ELSE files
        written == IF to_file /\ ~resp.raised
                   THEN write_bytes(opened, output_path[1], resp.value)
                   ELSE opened
    IN  [calls |-> <<call>>,
         files |-> written,
         out |-> IF resp.raised
                 THEN DeepLAPIError(500, Str(resp.exc), resp.exc)
                 ELSE IF to_file
                 THEN Returned([success |-> TRUE, document_id |-> document_id,
                                content_type |-> Some("application/octet-stream"),
                                size |-> getsize(opened, output_path[1]),
                                note |-> "Document saved to " \o output_path[1]])
                 ELSE Returned([success |-> TRUE, document_id |-> document_id,
                                content_type |-> Some("application/octet-stream"),
                                size |-> tell(BytesIO),
                                note |-> "Document downloaded to memory buffer"])]

\* download_translated_document on the files `files`; the vendor's response
\* value is the number of bytes it writes to the given file object, and it
\* has written nothing when it raises
DeepLClient_download_translated_document(document_id, document_key, output_path, files, resp) ==
    LET handle == [document_id |-> document_id, document_key |-> document_key]
        to_file == TruthyStr(output_path)
        call == VendorCall("translate_document_download",
                    [handle |-> handle,
                     output |-> IF to_file THEN output_path[1] ELSE "BytesIO"], resp)
        opened == IF to_file THEN open_wb(files, output_path[1]) ELSE files
        written == IF to_file /\ ~resp.raised
                   THEN write_bytes(opened, output_path[1], resp.value)
                   ELSE opened
    IN  [calls |-> <<call>>,
         files |-> written,
         out |-> IF resp.raised
                 THEN DeepLAPIError(500, Str(resp.exc), resp.exc)
                 ELSE IF to_file
                 THEN Returned([success |-> TRUE, document_id |-> document_id,
                                content_type |-> Some("application/octet-stream"),
                                size |-> getsize(written, output_path[1]),
                                note |-> "Document saved to " \o output_path[1]])
                 ELSE Returned([success |-> TRUE, document_id |-> document_id,
                                content_type |-> Some("application/octet-stream"),
                                size |-> tell(write_buffer(BytesIO, resp.value)),
                                note |-> "Document downloaded to memory buffer"])]

----------------------------------------------------------------------------
(* server.py: the process-wide handle *)

\* no call is in progress and no result is waiting to be delivered
Idle == [tool |-> "idle", out |-> Returned(None), calls |-> << >>, translators |-> 0]

\* the record of a direct call on a DeepLClient
ClientCall(op, args, r) == [tool |-> op, args |-> args, out |-> r.out, client_out |-> Some(r.out), calls |-> r.calls, translators |-> 0]

\* the server is up and no call is being handled
Ready == running /\ last = Idle

\* variant: the test `_client is None` is missing
get_client_always_new(c, e, n) ==
    IF ~TruthyStr(e)
    THEN [out |-> ValueError("DEEPL_API_KEY is not set - API calls will fail"),
          client |-> c, translators |-> 0]
    ELSE LET r == DeepLClient_init(e, e, n + 1)
         IN  [out |-> r.out,
              client |-> IF r.out.kind = "return" THEN Some(r.out.value) ELSE c,
              translators |-> r.translators]

\* variant: the environment check is left to DeepLClient.__init__
get_client_no_env_check(c, e, n) ==
    IF c = None
    THEN LET r == DeepLClient_init(e, e, n + 1)
         IN  [out |-> r.out,
              client |-> IF r.out.kind = "return" THEN Some(r.out.value) ELSE c,
              translators |-> r.translators]
    ELSE [out |-> Returned(c[1]), client |-> c, translators |-> 0]

\* get_client() on handle c, environment value e, n handles built so far
get_client(c, e, n) ==
    IF c = None
    THEN IF ~TruthyStr(e)
         THEN [out |-> ValueError("DEEPL_API_KEY is not set - API calls will fail"),
               client |-> c, translators |-> 0]
         ELSE LET r == DeepLClient_init(e, e, n + 1)
              IN  [out |-> r.out,
                   client |-> IF r.out.kind = "return" THEN Some(r.out.value) ELSE c,
                   translators |-> r.translators]
    ELSE [out |-> Returned(c[1]), client |-> c, translators |-> 0]

\* variant: the failure is turned into an error response
ToolOutcome_degraded(out, ctx, prefix) ==
    IF out.kind = "DeepLAPIError"
    THEN [ctx_log |-> IF ctx THEN <<[level |-> "error", prefix |-> prefix,
                                    message |-> out.message]>>
                      ELSE << >>,
          out |-> Returned([error |-> out.message])]
    ELSE [ctx_log |-> << >>, out |-> out]

\* `try: return await client.<op>(...) except DeepLAPIError as e:
\*      if ctx: await ctx.error(f"<prefix>: {e.message}"); raise`
\* out is the outcome of the client operation, prefix the tool's log prefix
ToolOutcome(out, ctx, prefix) ==
    IF out.kind = "DeepLAPIError"
    THEN [ctx_log |-> IF ctx THEN <<[level |-> "error", prefix |-> prefix,
                                    message |-> out.message]>>
                      ELSE << >>,
          out |-> out]
    ELSE [ctx_log |-> << >>, out |-> out]

\* variant: split_sentences defaults to "0"
ToolDefault_split_off(tool, param) ==
    CASE tool = "translate_text" /\ param = "preserve_formatting" -> FALSE
      [] tool = "translate_text" /\ param = "split_sentences" -> "0"
      [] tool = "list_languages" /\ param = "language_type" -> "target"
      [] tool = "create_glossary" /\ param = "entries_format" -> "tsv"

\* the values the tools' signatures give to arguments the caller omits;
\* every other optional argument defaults to None
ToolDefault(tool, param) ==
    CASE tool = "translate_text" /\ param = "preserve_formatting" -> FALSE
      [] tool = "translate_text" /\ param = "split_sentences" -> "1"
      [] tool = "list_languages" /\ param = "language_type" -> "target"
      [] tool = "create_glossary" /\ param = "entries_format" -> "tsv"

\* an optional argument of a tool: its default when the caller omits it
WithDefault(arg, default) == IF arg = None THEN default ELSE arg[1]

\* the call `await client.<op>(...)` in the body of tool, for the tool's
\* arguments a: the client operation and the arguments it is given
ClientCallOf(tool, a) ==
    CASE tool = "translate_text" ->
            [op |-> "translate_text",
             args |-> [text |-> a.text, target_lang |-> a.target_lang,
                       source_lang |-> a.source_lang, formality |-> a.formality,
                       preserve_formatting |-> WithDefault(a.preserve_formatting,
                            ToolDefault(tool, "preserve_formatting")),
                       tag_handling |-> a.tag_handling,
                       split_sentences |-> WithDefault(a.split_sentences,
                            ToolDefault(tool, "split_sentences"))]]
      [] tool = "translate_with_glossary" ->
            [op |-> "translate_with_glossary",
             args |-> [text |-> a.text, target_lang |-> a.target_lang,
                       glossary_id |-> a.glossary_id,
                       source_lang |-> a.source_lang, formality |-> a.formality]]
      [] tool = "detect_language" ->
            [op |-> "detect_language", args |-> [text |-> a.text]]
      [] tool = "list_languages" ->
            [op |-> "list_languages",
             args |-> [language_type |-> WithDefault(a.language_type,
                            ToolDefault(tool, "language_type"))]]
      [] tool = "get_usage" -> [op |-> "get_usage", args |-> << >>]
      [] tool = "list_glossaries" -> [op |-> "list_glossaries", args |-> << >>]
      [] tool = "create_glossary" ->
            [op |-> "create_glossary",
             args |-> [name |-> a.name, source_lang |-> a.source_lang,
                       target_lang |-> a.target_lang, entries |-> a.entries,
                       entries_format |-> WithDefault(a.entries_format,
                            ToolDefault(tool, "entries_format"))]]
      [] tool = "get_glossary" ->
            [op |-> "get_glossary", args |-> [glossary_id |-> a.glossary_id]]
      [] tool = "delete_glossary" ->
            [op |-> "delete_glossary", args |-> [glossary_id |-> a.glossary_id]]
      [] tool = "get_document_status" ->
            [op |-> "get_document_status",
             args |-> [document_id |-> a.document_id, document_key |-> a.document_key]]
      [] tool = "download_translated_document" ->
            [op |-> "download_translated_document",
             args |-> [document_id |-> a.document_id, document_key |-> a.document_key,
                       output_path |-> None]]

\* a client operation that leaves the files alone
KeepFiles(r, files) == [calls |-> r.calls, out |-> r.out, files |-> files]

\* the client operation c.op runs with the arguments c.args on the files
\* `files`, the vendor answering resp
Invoke(c, files, resp) ==
    LET a == c.args
    IN  CASE c.op = "translate_text" ->
                KeepFiles(DeepLClient_translate_text(a.text, a.target_lang, a.source_lang,
                              a.formality, a.preserve_formatting, a.tag_handling,
                              a.split_sentences, resp), files)
          [] c.op = "translate_with_glossary" ->
                KeepFiles(DeepLClient_translate_with_glossary(a.text, a.target_lang,
                              a.glossary_id, a.source_lang, a.formality, resp), files)
          [] c.op = "detect_language" ->
                KeepFiles(DeepLClient_detect_language(a.text, resp), files)
          [] c.op = "list_languages" ->
                KeepFiles(DeepLClient_list_languages(a.language_type, resp), files)
          [] c.op = "get_usage" -> KeepFiles(DeepLClient_get_usage(resp), files)
          [] c.op = "list_glossaries" -> KeepFiles(DeepLClient_list_glossaries(resp), files)
          [] c.op = "create_glossary" ->
                KeepFiles(DeepLClient_create_glossary(a.name, a.source_lang, a.target_lang,
                              a.entries, a.entries_format, resp), files)
          [] c.op = "get_glossary" ->
                KeepFiles(DeepLClient_get_glossary(a.glossary_id, resp), files)
          [] c.op = "delete_glossary" ->
                KeepFiles(DeepLClient_delete_glossary(a.glossary_id, resp), files)
          [] c.op = "get_document_status" ->
                KeepFiles(DeepLClient_get_document_status(a.document_id, a.document_key,
                              resp), files)
          [] c.op = "download_translated_document" ->
                DeepLClient_download_translated_document(a.document_id, a.document_key,
                    a.output_path, files, resp)

\* a tool: `client = get_client()` followed by the try block above around
\* the tool's one client call; resp is what the vendor answers when asked
RunTool(tool, args, ctx, prefix, resp) ==
    LET g == get_client(_client, env, handles)
        c == ClientCallOf(tool, args)
        r == Invoke(c, fs, resp)
        t == ToolOutcome(r.out, ctx, prefix)
    IN  /\ handles + g.translators <= MaxHandles
        /\ _client' = g.client
        /\ handles' = handles + g.translators
        /\ fs' = IF g.out.kind = "return" THEN r.files ELSE fs
        /\ UNCHANGED <<env, running, tasks>>
        /\ last' = IF g.out.kind # "return"
                   THEN [tool |-> tool, args |-> args, ctx |-> ctx,
                         before |-> _client, client |-> None, translators |-> g.translators,
                         client_calls |-> << >>,
                         calls |-> << >>, client_out |-> None, ctx_log |-> << >>,
                         out |-> g.out]
                   ELSE [tool |-> tool, args |-> args, ctx |-> ctx,
                         before |-> _client, client |-> g.client, translators |-> g.translators,
                         client_calls |-> <<c>>,
                         calls |-> r.calls, client_out |-> Some(r.out),
                         ctx_log |-> t.ctx_log, out |-> t.out]

----------------------------------------------------------------------------
(* Inputs of the tools *)

TargetLangs == {"DE"}
SplitSentencesInputs == {"0", "1", "nonewlines", "bogus"}
LanguageTypeInputs == {"source", "target", "SOURCE", "bogus"}
Filenames == {None, Some("report.docx")}

\* the optional arguments of translate_text other than split_sentences
TranslateOptions ==
    {[source_lang |-> None, formality |-> None,
      preserve_formatting |-> None, tag_handling |-> None],
     [source_lang |-> Some("EN"), formality |-> None,
      preserve_formatting |-> Some(FALSE), tag_handling |-> None],
     [source_lang |-> Some("EN"), formality |-> Some("more"),
      preserve_formatting |-> Some(TRUE), tag_handling |-> Some("xml")]}

----------------------------------------------------------------------------
(* The environment and direct construction *)

\* os.environ["DEEPL_API_KEY"] is set, changed or removed between calls
SetEnv ==
    /\ Ready
    /\ \E v \in EnvValues :
        /\ v # env
        /\ env' = v
        /\ UNCHANGED <<_client, handles, fs, last, running, glossaries, lifecycle, tasks>>

\* DeepLClient(api_token) called directly, outside the server
NewDeepLClient ==
    /\ Ready
    /\ \E api_token \in EnvValues :
        LET r == DeepLClient_init(api_token, env, 0)
        IN  /\ last' = [tool |-> "DeepLClient", args |-> [api_token |-> api_token],
                        out |-> r.out, calls |-> << >>, translators |-> r.translators]
            /\ UNCHANGED <<env, _client, handles, fs, running, glossaries, lifecycle, tasks>>

MaxCloses == 2

\* what the body of an `async with` block may raise
BodyExceptions == {[kind |-> "RuntimeError", message |-> "body failed"]}

\* the record of a step in the life of a DeepLClient object used directly:
\* the object, how often close() ran on it, what its async-with body raised
Lifetime(step, c, closes, body_exc, out) == [tool |-> step, client |-> c, closes |-> closes, body_exc |-> body_exc, out |-> out, calls |-> << >>, translators |-> 0]

\* `async with DeepLClient(...) as client:` with the client just constructed:
\* __aenter__ returns the client itself
client_aenter ==
    /\ running
    /\ last.tool = "DeepLClient" /\ last.out.kind = "return"
    /\ last' = Lifetime("DeepLClient.__aenter__", last.out.value, 0, None,
                        Returned(last.out.value))
    /\ UNCHANGED <<env, _client, handles, fs, running, glossaries, lifecycle, tasks>>

\* the body of the async-with block returns or raises, and __aexit__ runs
client_aexit ==
    /\ running
    /\ last.tool = "DeepLClient.__aenter__"
    /\ \E exc \in {None} \cup {Some(e) : e \in BodyExceptions} :
        LET r == DeepLClient_aexit(last.client, exc)
        IN  last' = Lifetime("DeepLClient.__aexit__", r.client, last.closes + r.closes,
                             exc, r.out)
    /\ UNCHANGED <<env, _client, handles, fs, running, glossaries, lifecycle, tasks>>

\* `await client.close()` on a client just constructed, or once more on a
\* client that has left its context or was closed before
client_close ==
    /\ running
    /\ \/ last.tool = "DeepLClient" /\ last.out.kind = "return"
       \/ last.tool \in {"DeepLClient.__aexit__", "DeepLClient.close"}
    /\ LET c == IF last.tool = "DeepLClient" THEN last.out.value ELSE last.client
           closes == IF last.tool = "DeepLClient" THEN 0 ELSE last.closes
           body_exc == IF last.tool = "DeepLClient" THEN None ELSE last.body_exc
       IN  /\ closes < MaxCloses
           /\ last' = Lifetime("DeepLClient.close", DeepLClient_close(c), closes + 1,
                               body_exc, Returned(None))
    /\ UNCHANGED <<env, _client, handles, fs, running, glossaries, lifecycle, tasks>>

\* the process is shut down: the ASGI application `app` stops serving.
\* server.py registers no shutdown hook, so nothing else happens
Shutdown ==
    /\ Ready
    /\ running' = FALSE
    /\ UNCHANGED <<env, _client, handles, fs, last, glossaries, lifecycle, tasks>>

\* the result or the exception of the finished call goes to its caller
Deliver ==
    /\ last # Idle
    /\ last' = Idle
    /\ UNCHANGED <<env, _client, handles, fs, running, glossaries, lifecycle, tasks>>

----------------------------------------------------------------------------
(* server.py: the tools *)

translate_text ==
    /\ Ready
    /\ \E text \in TextInputs, target_lang \in TargetLangs, o \in TranslateOptions,
          split_sentences \in {None} \cup {Some(v) : v \in SplitSentencesInputs},
          ctx \in BOOLEAN :
        \E resp \in VendorResponses(VendorTranslateResults(text)) :
            RunTool("translate_text",
                    [text |-> text, target_lang |-> target_lang,
                     source_lang |-> o.source_lang, formality |-> o.formality,
                     preserve_formatting |-> o.preserve_formatting,
                     tag_handling |-> o.tag_handling, split_sentences |-> split_sentences],
                    ctx, "Translation error", resp)
    /\ UNCHANGED <<glossaries, lifecycle>>

translate_with_glossary ==
    /\ Ready
    /\ \E text \in TextInputs, target_lang \in TargetLangs, glossary_id \in GlossaryIds,
          o \in TranslateOptions, ctx \in BOOLEAN :
        \E resp \in VendorResponses(VendorTranslateResults(text)) :
            RunTool("translate_with_glossary",
                    [text |-> text, target_lang |-> target_lang,
                     glossary_id |-> glossary_id,
                     source_lang |-> o.source_lang, formality |-> o.formality],
                    ctx, "Translation error", resp)
    /\ UNCHANGED <<glossaries, lifecycle>>

detect_language ==
    /\ Ready
    /\ \E text \in DetectTexts, ctx \in BOOLEAN :
        \E resp \in VendorResponses(VendorDetectResults) :
            RunTool("detect_language", [text |-> text], ctx,
                    "Language detection error", resp)
    /\ UNCHANGED <<glossaries, lifecycle>>

\* the vendor answers with the listing of the direction it is asked for
list_languages ==
    /\ Ready
    /\ \E language_type \in {None} \cup {Some(v) : v \in LanguageTypeInputs},
          ctx \in BOOLEAN :
        LET args == [language_type |-> language_type]
            asked == languages_method(ClientCallOf("list_languages", args).args.language_type)
            listings == IF asked = "get_source_languages"
                        THEN SeqUpTo(SourceLanguages, MaxLangs)
                        ELSE SeqUpTo(TargetLanguages, MaxLangs)
        IN  \E resp \in VendorResponses(listings) :
                RunTool("list_languages", args, ctx, "Error listing languages", resp)
    /\ UNCHANGED <<glossaries, lifecycle>>

get_usage ==
    /\ Ready
    /\ \E ctx \in BOOLEAN, resp \in VendorResponses(Usages) :
            RunTool("get_usage", << >>, ctx, "Error getting usage", resp)
    /\ UNCHANGED <<glossaries, lifecycle>>

list_glossaries ==
    /\ Ready
    /\ \E ctx \in BOOLEAN, resp \in VendorResponses(SeqUpTo(GlossaryInfos, MaxGlossaries)) :
            RunTool("list_glossaries", << >>, ctx, "Error listing glossaries", resp)
    /\ UNCHANGED <<glossaries, lifecycle>>

create_glossary ==
    /\ Ready
    /\ \E name \in {"Test Glossary"}, source_lang \in {"EN"}, target_lang \in {"DE"},
          entries \in {{}, {<<"app", "App">>}},
          entries_format \in {None, Some("tsv"), Some("csv")}, ctx \in BOOLEAN :
        \E resp \in VendorResponses(GlossaryInfos) :
            RunTool("create_glossary",
                    [name |-> name, source_lang |-> source_lang,
                     target_lang |-> target_lang, entries |-> entries,
                     entries_format |-> entries_format],
                    ctx, "Error creating glossary", resp)
    /\ UNCHANGED <<glossaries, lifecycle>>

get_glossary ==
    /\ Ready
    /\ \E glossary_id \in GlossaryIds, ctx \in BOOLEAN :
        \E resp \in VendorResponses(GlossaryInfos) :
            RunTool("get_glossary", [glossary_id |-> glossary_id], ctx,
                    "Error getting glossary", resp)
    /\ UNCHANGED <<glossaries, lifecycle>>

delete_glossary ==
    /\ Ready
    /\ \E glossary_id \in GlossaryIds, ctx \in BOOLEAN :
        \E resp \in VendorResponses({None}) :
            RunTool("delete_glossary", [glossary_id |-> glossary_id], ctx,
                    "Error deleting glossary", resp)
    /\ UNCHANGED <<glossaries, lifecycle>>

get_document_status ==
    /\ Ready
    /\ \E document_id \in DocumentIds, document_key \in DocumentKeys, ctx \in BOOLEAN :
        \E resp \in VendorResponses(DocumentStatuses) :
            RunTool("get_document_status",
                    [document_id |-> document_id, document_key |-> document_key], ctx,
                    "Error getting document status", resp)
    /\ UNCHANGED <<glossaries, lifecycle>>

\* variant: the tool obtains the handle and uploads the document
translate_document_body_uploads(document_path, filename, ctx, c, e, n, files) ==
    LET g == get_client(c, e, n)
        r == DeepLClient_upload_document(document_path, "DE", None, None, filename, files,
                                         Return([document_id |-> "doc1", document_key |-> "k1"]))
    IN  [client |-> g.client, translators |-> g.translators,
         calls |-> IF g.out.kind = "return" THEN r.calls ELSE << >>,
         ctx_log |-> << >>,
         out |-> IF g.out.kind = "return" THEN r.out ELSE g.out]

\* the body of the translate_document tool on handle c, environment value e,
\* n handles built so far and the files `files`: it reads none of them
translate_document_body(document_path, filename, ctx, c, e, n, files) ==
    [client |-> c, translators |-> 0, calls |-> << >>,
     ctx_log |-> IF ctx
                 THEN <<[level |-> "warning", prefix |-> "",
                         message |-> "Document upload is a placeholder - production implementation requires multipart form data handling"]>>
                 ELSE << >>,
     out |-> Returned([document_id |-> "placeholder_id",
                       document_key |-> "placeholder_key",
                       note |-> "Document upload implementation requires multipart form data handling"])]

translate_document ==
    /\ Ready
    /\ \E document_path \in Paths, filename \in Filenames, ctx \in BOOLEAN :
        LET r == translate_document_body(document_path, filename, ctx,
                                         _client, env, handles, fs)
        IN  /\ handles + r.translators <= MaxHandles
            /\ _client' = r.client
            /\ handles' = handles + r.translators
            /\ last' = [tool |-> "translate_document",
                        args |-> [document_path |-> document_path, target_lang |-> "DE",
                                  filename |-> filename],
                        ctx |-> ctx, before |-> _client, client |-> None,
                        translators |-> r.translators, client_calls |-> << >>,
                        calls |-> r.calls, client_out |-> None,
                        ctx_log |-> r.ctx_log, out |-> r.out]
    /\ UNCHANGED <<env, fs, running, glossaries, lifecycle, tasks>>

\* the tool passes no output path: the document is downloaded to memory
download_translated_document ==
    /\ Ready
    /\ \E document_id \in DocumentIds, document_key \in DocumentKeys, ctx \in BOOLEAN :
        \E resp \in VendorResponses(DocSizes) :
            RunTool("download_translated_document",
                    [document_id |-> document_id, document_key |-> document_key],
                    ctx, "Error downloading document", resp)
    /\ UNCHANGED <<glossaries, lifecycle>>

----------------------------------------------------------------------------
(* DeepLClient used directly, as the unit and integration tests do *)

\* await client.upload_document(document_path, "DE", filename=filename)
client_upload_document ==
    /\ Ready
    /\ \E document_path \in Paths, filename \in Filenames :
        \E resp \in VendorResponses(DocumentHandles) :
            last' = ClientCall("DeepLClient.upload_document",
                        [document_path |-> document_path, filename |-> filename],
                        DeepLClient_upload_document(document_path, "DE", None, None,
                                                    filename, fs, resp))
    /\ UNCHANGED <<env, _client, handles, fs, running, glossaries, lifecycle, tasks>>

\* await client.download_translated_document(document_id, document_key, output_path)
client_download_translated_document ==
    /\ Ready
    /\ \E document_id \in DocumentIds, document_key \in DocumentKeys,
          output_path \in {None, Some("")} \cup {Some(p) : p \in OutputPaths} :
        \E resp \in VendorResponses(DocSizes) :
            LET r == DeepLClient_download_translated_document(document_id, document_key,
                         output_path, fs, resp)
            IN  /\ last' = ClientCall("DeepLClient.download_translated_document",
                                [document_id |-> document_id, document_key |-> document_key,
                                 output_path |-> output_path], r)
                /\ fs' = r.files
    /\ UNCHANGED <<env, _client, handles, running, glossaries, lifecycle, tasks>>

----------------------------------------------------------------------------

Init ==
    /\ env \in EnvValues
    /\ _client = None
    /\ handles = 0
    /\ fs = [p \in Paths |-> IF p = "doc.docx" THEN Some(DocLength) ELSE None]
    /\ last = Idle
    /\ running = TRUE
    /\ glossaries = [g \in GlossaryIds |-> None]
    /\ lifecycle = [glossary |-> None, fetched |-> << >>]
    /\ tasks = << >>

Next ==
    \/ SetEnv
    \/ Deliver
    \/ Shutdown
    \/ client_upload_document
    \/ client_download_translated_document
    \/ NewDeepLClient
    \/ client_aenter
    \/ client_aexit
    \/ client_close
    \/ translate_text
    \/ translate_with_glossary
    \/ detect_language
    \/ list_languages
    \/ get_usage
    \/ list_glossaries
    \/ create_glossary
    \/ get_glossary
    \/ delete_glossary
    \/ translate_document
    \/ get_document_status
    \/ download_translated_document

Spec == Init /\ [][Next]_vars

----------------------------------------------------------------------------
(* The glossary lifecycle against a vendor that stores glossaries *)

MaxFetches == 2

GlossaryNames == {"test-integration-glossary"}
\* entries: dict[str, str], as the set of its items
GlossaryEntries == {{<<"app", "App">>}, {<<"app", "App">>, <<"cloud", "Cloud">>}}

\* what the vendor answers when asked for glossary id: the stored glossary,
\* or a DeepLException (always one when the glossary does not exist)
VendorGlossaryResponses(id) ==
    (IF glossaries[id] # None THEN {Return(glossaries[id][1])} ELSE {})
    \cup {Raise(e) : e \in VendorExceptions}

\* glossary = await client.create_glossary(name, "EN", "DE", entries):
\* the vendor stores a new glossary under an unused id, ready or not yet ready
client_create_glossary ==
    /\ Ready
    /\ \E name \in GlossaryNames, entries \in GlossaryEntries, id \in GlossaryIds,
          ready \in BOOLEAN, t \in DateTimes :
        /\ glossaries[id] = None
        /\ \E resp \in VendorResponses({[glossary_id |-> id, name |-> name, ready |-> ready,
                                         source_lang |-> "EN", target_lang |-> "DE",
                                         creation_time |-> t,
                                         entry_count |-> Cardinality(entries)]}) :
            LET r == DeepLClient_create_glossary(name, "EN", "DE", entries, "tsv", resp)
            IN  /\ last' = ClientCall("DeepLClient.create_glossary",
                                      [name |-> name, entries |-> entries], r)
                /\ glossaries' = IF resp.raised THEN glossaries
                                 ELSE [glossaries EXCEPT ![id] = Some(resp.value)]
                /\ lifecycle' = IF r.out.kind = "return"
                                THEN [glossary |-> Some(r.out.value), fetched |-> << >>]
                                ELSE lifecycle
    /\ UNCHANGED <<env, _client, handles, fs, running, tasks>>

\* fetched = await client.get_glossary(glossary.glossary_id)
client_get_glossary ==
    /\ Ready
    /\ lifecycle.glossary # None
    /\ Len(lifecycle.fetched) < MaxFetches
    /\ \E resp \in VendorGlossaryResponses(lifecycle.glossary[1].glossary_id) :
        LET glossary_id == lifecycle.glossary[1].glossary_id
            r == DeepLClient_get_glossary(glossary_id, resp)
        IN  /\ last' = ClientCall("DeepLClient.get_glossary",
                                  [glossary_id |-> glossary_id], r)
            /\ lifecycle' = IF r.out.kind = "return"
                            THEN [lifecycle EXCEPT !.fetched = Append(@, r.out.value)]
                            ELSE lifecycle
    /\ UNCHANGED <<env, _client, handles, fs, running, glossaries, tasks>>

\* await client.delete_glossary(glossary.glossary_id)
client_delete_glossary ==
    /\ Ready
    /\ lifecycle.glossary # None
    /\ \E resp \in VendorResponses({None}) :
        LET glossary_id == lifecycle.glossary[1].glossary_id
            r == DeepLClient_delete_glossary(glossary_id, resp)
        IN  /\ glossaries[glossary_id] = None => resp.raised
            /\ last' = ClientCall("DeepLClient.delete_glossary",
                                  [glossary_id |-> glossary_id], r)
            /\ glossaries' = IF resp.raised THEN glossaries
                             ELSE [glossaries EXCEPT ![glossary_id] = None]
    /\ UNCHANGED <<env, _client, handles, fs, running, lifecycle, tasks>>

\* the vendor finishes preparing a glossary: its `ready` turns from false to true
VendorReady ==
    /\ Ready
    /\ \E id \in GlossaryIds :
        /\ glossaries[id] # None
        /\ ~glossaries[id][1].ready
        /\ glossaries' = [glossaries EXCEPT ![id] = Some([@[1] EXCEPT !.ready = TRUE])]
    /\ UNCHANGED <<env, _client, handles, fs, last, running, lifecycle, tasks>>

NextGlossary ==
    \/ client_create_glossary
    \/ client_get_glossary
    \/ client_delete_glossary
    \/ VendorReady
    \/ Deliver

SpecGlossary == Init /\ [][NextGlossary]_vars

----------------------------------------------------------------------------
(* Tool calls running concurrently on the event loop *)

MaxTasks == 2

\* A tool coroutine is followed through its code: "start" before
\* `client = get_client()`, "create" after `if _client is None:` was found
\* true, "call" at `await client.<op>(...)`, "report" suspended in
\* `await ctx.error(...)`, "done" after its return or raise.
NewTask(ctx) == [pc |-> "start", ctx |-> ctx, before |-> _client, client |-> None, result |-> "none"]

\* variant: the tools run on threads, which are switched at any point
CanRun_preemptive(i) == TRUE

\* the tools are `async def`: the event loop runs one coroutine at a time and
\* switches only at an await that suspends.  get_client has no await and the
\* DeepLClient methods contain none either, so a task between "start" and the
\* end of its client operation keeps the loop
CanRun(i) == \A j \in 1..Len(tasks) : j # i => tasks[j].pc \notin {"create", "call"}

\* a call of the delete_glossary tool arrives
Dispatch ==
    /\ running
    /\ Len(tasks) < MaxTasks
    /\ \E ctx \in BOOLEAN : tasks' = Append(tasks, NewTask(ctx))
    /\ UNCHANGED <<env, _client, handles, fs, last, running, glossaries, lifecycle>>

\* get_client: `if _client is None:`, and `return _client` when it is not
TaskCheck ==
    /\ \E i \in 1..Len(tasks) :
        /\ tasks[i].pc = "start"
        /\ CanRun(i)
        /\ tasks' = [tasks EXCEPT ![i].pc = IF _client = None THEN "create" ELSE "call",
                                  ![i].client = _client]
    /\ UNCHANGED <<env, _client, handles, fs, last, running, glossaries, lifecycle>>

\* get_client: the body of `if _client is None:`, then `return _client`
TaskCreate ==
    /\ \E i \in 1..Len(tasks) :
        LET g == get_client(None, env, handles)
        IN  /\ tasks[i].pc = "create"
            /\ CanRun(i)
            /\ handles + g.translators <= MaxHandles
            /\ _client' = IF g.out.kind = "return" THEN g.client ELSE _client
            /\ handles' = handles + g.translators
            /\ tasks' = IF g.out.kind = "return"
                        THEN [tasks EXCEPT ![i].pc = "call", ![i].client = g.client]
                        ELSE [tasks EXCEPT ![i].pc = "done", ![i].result = g.out.kind]
    /\ UNCHANGED <<env, fs, last, running, glossaries, lifecycle>>

\* `return await client.delete_glossary(glossary_id)` and the except block up
\* to `await ctx.error(...)`
TaskCall ==
    /\ \E i \in 1..Len(tasks), glossary_id \in GlossaryIds :
        /\ tasks[i].pc = "call"
        /\ CanRun(i)
        /\ \E resp \in VendorResponses({None}) :
            LET t == ToolOutcome(DeepLClient_delete_glossary(glossary_id, resp).out,
                                 tasks[i].ctx, "Error deleting glossary")
            IN  tasks' = [tasks EXCEPT
                            ![i].pc = IF t.ctx_log # << >> THEN "report" ELSE "done",
                            ![i].result = t.out.kind]
    /\ UNCHANGED <<env, _client, handles, fs, last, running, glossaries, lifecycle>>

\* `await ctx.error(...)` returns and `raise` ends the call
TaskReport ==
    /\ \E i \in 1..Len(tasks) :
        /\ tasks[i].pc = "report"
        /\ CanRun(i)
        /\ tasks' = [tasks EXCEPT ![i].pc = "done"]
    /\ UNCHANGED <<env, _client, handles, fs, last, running, glossaries, lifecycle>>

NextConcurrent ==
    \/ SetEnv
    \/ Dispatch
    \/ TaskCheck
    \/ TaskCreate
    \/ TaskCall
    \/ TaskReport

SpecConcurrent == Init /\ [][NextConcurrent]_vars

----------------------------------------------------------------------------
(* Properties *)

ToolNames ==
    {"translate_text", "translate_with_glossary", "detect_language", "list_languages", "get_usage",
     "list_glossaries", "create_glossary", "get_glossary", "delete_glossary",
     "get_document_status", "download_translated_document"}

\* the client operation of the finished call ran and returned
Succeeded(tool) == last.tool = tool /\ last.out.kind = "return" /\ Len(last.calls) = 1

\* the vendor call of the finished call raised
VendorRaised(tool) ==
    last.tool = tool /\ Len(last.calls) = 1 /\ last.calls[1].resp.raised

VendorValue == last.calls[1].resp.value
VendorExc == last.calls[1].resp.exc

\* C1: a successful translate_text returns exactly one translation for a
\* single text (the vendor returned one object) and exactly N translations
\* for an N-element batch (the vendor returned an N-element list), and the
\* i-th translation carries the text and the detected source language of the
\* vendor's i-th result.
C1_TranslationsFollowVendorResult ==
    Succeeded("translate_text") =>
        LET text == last.args.text
            tr == last.out.value.translations
        IN  /\ text.shape = "str" => VendorValue.shape = "object" /\ Len(tr) = 1
            /\ text.shape = "list" =>
                   VendorValue.shape = "list" /\ Len(tr) = Len(text.items)
            /\ Len(tr) = Len(VendorValue.items)
            /\ \A i \in 1..Len(tr) :
                   /\ tr[i].text = VendorValue.items[i].text
                   /\ tr[i].detected_source_language
                          = Some(VendorValue.items[i].detected_source_lang)

C1_Witness ==
    /\ Succeeded("translate_text")
    /\ last.args.text.shape = "list"
    /\ Len(last.out.value.translations) = 2
    /\ last.out.value.translations[1] # last.out.value.translations[2]

\* an error message counts as present when it is a non-empty string
ErrorPresent(status) == TruthyStr(status.error_message)

\* C2: get_document_status derives the status in priority order: done when
\* the vendor reports completion, otherwise error when an error message is
\* present, otherwise translating when a remaining-time estimate exists,
\* otherwise queued; the result is one of these four values.
C2_StatusPriority ==
    Succeeded("get_document_status") =>
        LET st == VendorValue
            r == last.out.value.status
        IN  /\ r \in {"queued", "translating", "done", "error"}
            /\ st.done => r = "done"
            /\ ~st.done /\ ErrorPresent(st) => r = "error"
            /\ ~st.done /\ ~ErrorPresent(st) /\ st.seconds_remaining # None
                   => r = "translating"
            /\ ~st.done /\ ~ErrorPresent(st) /\ st.seconds_remaining = None
                   => r = "queued"

C2_Witness ==
    /\ Succeeded("get_document_status")
    /\ VendorValue.done
    /\ ErrorPresent(VendorValue)
    /\ VendorValue.seconds_remaining = Some(5)
    /\ last.out.value.status = "done"

\* C3: a vendor authorization exception yields status 403 when raised during
\* translate_text and status 500 when raised during list_glossaries.
C3_AuthorizationByOperation ==
    /\ VendorRaised("translate_text") /\ VendorExc.cls = "AuthorizationException"
           => last.out.kind = "DeepLAPIError" /\ last.out.status = 403
    /\ VendorRaised("list_glossaries") /\ VendorExc.cls = "AuthorizationException"
           => last.out.kind = "DeepLAPIError" /\ last.out.status = 500

C3_Witness ==
    /\ VendorRaised("list_glossaries")
    /\ VendorExc.cls = "AuthorizationException"
    /\ last.out.status = 500

\* the fine-grained mapping of the error taxonomy
FineGrainedStatus(e) ==
    CASE e.cls = "QuotaExceededException" -> 456
      [] e.cls = "TooManyRequestsException" -> 429
      [] e.cls = "AuthorizationException" -> 403
      [] OTHER -> 500

\* C4: every vendor exception raised during translate_text is normalized to
\* a status of {403, 456, 429, 500}: 456 for quota exceeded, 429 for too many
\* requests, 403 for an authorization failure, 500 for anything else, and
\* the message is the vendor exception's message.
C4_TranslateTextStatuses ==
    VendorRaised("translate_text") =>
        /\ last.out.kind = "DeepLAPIError"
        /\ last.out.status \in {403, 456, 429, 500}
        /\ last.out.status = FineGrainedStatus(VendorExc)
        /\ last.out.message = VendorExc.msg

C4_Witness ==
    /\ VendorRaised("translate_text")
    /\ VendorExc.cls = "TooManyRequestsException"
    /\ last.out.status = 429
    /\ last.out.message = "Quota exceeded"

\* C5: translate_with_glossary applies the same fine-grained mapping as
\* translate_text: 403 for an authorization failure, 456 for quota exceeded,
\* 429 for too many requests, 500 for any other vendor failure.
C5_GlossaryTranslateStatuses ==
    VendorRaised("translate_with_glossary") =>
        /\ last.out.kind = "DeepLAPIError"
        /\ last.out.status = FineGrainedStatus(VendorExc)

CoarseOperations ==
    {"list_languages", "get_usage", "list_glossaries", "create_glossary",
     "get_glossary", "delete_glossary", "get_document_status",
     "download_translated_document"}

\* C6: in list_languages, get_usage, list_glossaries, create_glossary,
\* get_glossary, delete_glossary, get_document_status and
\* download_translated_document every vendor failure, whatever its subtype,
\* is normalized to status 500.
C6_OtherOperationsMapTo500 ==
    \A op \in CoarseOperations :
        VendorRaised(op) => last.out.kind = "DeepLAPIError" /\ last.out.status = 500

C6_Witness ==
    /\ VendorRaised("get_usage")
    /\ VendorExc.cls = "QuotaExceededException"
    /\ last.out.kind = "DeepLAPIError"
    /\ last.out.status = 500

\* the vendor's counter carries the field (count or limit)
HasCount(d) == d # None /\ d[1].count # None
HasLimit(d) == d # None /\ d[1].limit # None

\* C7: get_usage always reports both character fields as integers: 0 when
\* the vendor has no character counter, the counter's count and limit when
\* it has one; a document or team-document field is absent (not zero)
\* exactly when the vendor omits it.
C7_UsageCharacterAlwaysReported ==
    Succeeded("get_usage") =>
        LET u == VendorValue
            r == last.out.value
        IN  /\ r.character_count # None /\ r.character_count[1] \in Nat
            /\ r.character_limit # None /\ r.character_limit[1] \in Nat
            /\ r.character_count = IF HasCount(u.character)
                                   THEN u.character[1].count ELSE Some(0)
            /\ r.character_limit = IF HasLimit(u.character)
                                   THEN u.character[1].limit ELSE Some(0)
            /\ (r.document_count = None) <=> ~HasCount(u.document)
            /\ (r.document_limit = None) <=> ~HasLimit(u.document)
            /\ (r.team_document_count = None) <=> ~HasCount(u.team_document)
            /\ (r.team_document_limit = None) <=> ~HasLimit(u.team_document)
            /\ HasCount(u.document) => r.document_count = u.document[1].count
            /\ HasLimit(u.document) => r.document_limit = u.document[1].limit
            /\ HasCount(u.team_document)
                   => r.team_document_count = u.team_document[1].count
            /\ HasLimit(u.team_document)
                   => r.team_document_limit = u.team_document[1].limit

C7_Witness ==
    /\ Succeeded("get_usage")
    /\ VendorValue.character = None
    /\ VendorValue.document = None
    /\ VendorValue.team_document = Some([count |-> Some(0), limit |-> Some(0)])
    /\ last.out.value.character_count = Some(0)
    /\ last.out.value.character_limit = Some(0)
    /\ last.out.value.document_count = None
    /\ last.out.value.team_document_count = Some(0)

\* C8: list_languages returns one entry per vendor descriptor, in vendor
\* order, with the descriptor's code and name; for "source" no entry has
\* supports_formality populated, for "target" every entry has the value the
\* vendor reports for that language.
C8_LanguagesFormalityByDirection ==
    Succeeded("list_languages") =>
        LET langs == VendorValue
            r == last.out.value.languages
        IN  /\ Len(r) = Len(langs)
            /\ \A i \in 1..Len(r) :
                   /\ r[i].language = langs[i].code
                   /\ r[i].name = langs[i].name
                   /\ last.args.language_type = Some("source")
                          => r[i].supports_formality = None
                   /\ last.args.language_type = Some("target")
                          => /\ langs[i].supports_formality # None
                             /\ r[i].supports_formality = langs[i].supports_formality[1]
                             /\ r[i].supports_formality # None

C8_Witness ==
    /\ Succeeded("list_languages")
    /\ last.args.language_type = Some("source")
    /\ Len(last.out.value.languages) = 2
    /\ VendorValue[1].supports_formality = None
    /\ VendorValue[2].supports_formality = Some(None)
    /\ VendorValue[1].code # VendorValue[2].code

\* C9: with no credential passed and DEEPL_API_KEY unset or empty,
\* constructing the handle fails with ValueError before a vendor translator
\* is created and before any vendor call is made, both in DeepLClient() and
\* in get_client().
C9_NoCredentialFailsFast ==
    /\ last.tool = "DeepLClient" /\ ~TruthyStr(last.args.api_token) /\ ~TruthyStr(env)
           => /\ last.out.kind = "ValueError"
              /\ last.translators = 0
              /\ last.calls = << >>
    /\ last.tool \in ToolNames /\ last.before = None /\ ~TruthyStr(env)
           => /\ last.out.kind = "ValueError"
              /\ last.translators = 0
              /\ last.calls = << >>
              /\ _client = None
              /\ handles = 0

C9_Witness ==
    /\ last.tool = "get_usage"
    /\ last.before = None
    /\ env = Some("")
    /\ last.out.kind = "ValueError"
    /\ last.calls = << >>

\* C10: get_client constructs the handle at most once: the first successful
\* call creates it and every later call leaves that same instance in place,
\* whatever happens to DEEPL_API_KEY and whether or not operations on the
\* handle failed.
C10_HandleConstructedOnce ==
    /\ [](handles <= 1)
    /\ [](_client # None => handles = 1 /\ _client[1].id = 1)
    /\ [][_client # None => _client' = _client]_vars
    /\ [][last'.tool \in ToolNames /\ last'.out.kind # "ValueError"
              => _client' # None /\ last'.client = _client']_vars

C10_Witness ==
    /\ last.tool \in ToolNames
    /\ last.before # None
    /\ last.client = last.before
    /\ last.out.kind = "return"
    /\ _client[1].api_token = "key1"
    /\ env = Some("key2")
    /\ handles = 1

\* the HTTP client of the shared handle has been closed
HandleClosed ==
    /\ _client # None
    /\ _client[1]._translator._client # None
    /\ _client[1]._translator._client[1].closed

\* C11: whenever the process is shut down after get_client constructed the
\* shared handle, close() has been invoked on that handle, so that its
\* underlying network client is closed.
C11_HandleReleasedOnShutdown ==
    ~running /\ _client # None => HandleClosed

\* the fields of a Glossary record other than `ready`
GlossaryIdentity(g) == [g EXCEPT !.ready = TRUE]

\* every record get_glossary has returned since the last create_glossary
FetchedRecords == {lifecycle.fetched[i] : i \in 1..Len(lifecycle.fetched)}

\* C12 as stated: after create_glossary returned a Glossary, every get_glossary
\* with the returned id returns a record identical to it in all seven fields,
\* `ready` included, and so does a repeated get.
C12_RoundTripIdentical ==
    \A g \in FetchedRecords : g = lifecycle.glossary[1]

\* C12 as amended: every get_glossary that succeeds returns the created record's
\* id, name, source_lang, target_lang, creation_time and entry_count; `ready`
\* is the created record's or has turned from false to true, and a repeated get
\* returns the same record again unless `ready` turned true in between.
C12_RoundTripUpToReady ==
    /\ \A g \in FetchedRecords :
        /\ GlossaryIdentity(g) = GlossaryIdentity(lifecycle.glossary[1])
        /\ lifecycle.glossary[1].ready => g.ready
    /\ \A i, j \in 1..Len(lifecycle.fetched) :
        i < j => /\ GlossaryIdentity(lifecycle.fetched[j]) = GlossaryIdentity(lifecycle.fetched[i])
                 /\ lifecycle.fetched[i].ready => lifecycle.fetched[j].ready

\* create returned a glossary that was not ready, two gets followed, the
\* second after the vendor finished preparing it
C12_Witness ==
    /\ lifecycle.glossary # None
    /\ ~lifecycle.glossary[1].ready
    /\ Len(lifecycle.fetched) = 2
    /\ lifecycle.fetched[1] = lifecycle.glossary[1]
    /\ lifecycle.fetched[2].ready

\* C13: upload_document with a path at which there is no file fails with
\* status 404 and makes no vendor call; a vendor failure during the upload
\* gives status 500; a success carries exactly the document_id and
\* document_key of the handle the vendor returned.
C13_UploadOutcomes ==
    last.tool = "DeepLClient.upload_document" =>
        IF fs[last.args.document_path] = None
        THEN /\ last.out.kind = "DeepLAPIError"
             /\ last.out.status = 404
             /\ last.calls = << >>
        ELSE /\ Len(last.calls) = 1
             /\ last.calls[1].method = "translate_document_upload"
             /\ IF last.calls[1].resp.raised
                THEN last.out.kind = "DeepLAPIError" /\ last.out.status = 500
                ELSE last.out = Returned(last.calls[1].resp.value)

\* an upload from a path without a file has failed
C13_Witness ==
    /\ last.tool = "DeepLClient.upload_document"
    /\ last.args.document_path = "missing.docx"
    /\ last.out.kind = "DeepLAPIError"
    /\ last.out.message = "Document not found: missing.docx"

\* a download has returned a response
Downloaded ==
    /\ last.tool \in {"DeepLClient.download_translated_document", "download_translated_document"}
    /\ last.out.kind = "return"

\* the output path of the finished download, None for the tool (it passes none)
DownloadPath ==
    IF last.tool = "DeepLClient.download_translated_document"
    THEN last.args.output_path ELSE None

\* C14: a successful download reports the size of the file written when an
\* output path is given and the number of bytes buffered when none is given;
\* in both cases content_type is 'application/octet-stream', success is true
\* and document_id is the requested id.
C14_DownloadReportsSize ==
    Downloaded =>
        /\ last.out.value.success = TRUE
        /\ last.out.value.document_id = last.args.document_id
        /\ last.out.value.content_type = Some("application/octet-stream")
        /\ last.out.value.size = last.calls[1].resp.value
        /\ TruthyStr(DownloadPath) => fs[DownloadPath[1]] = Some(last.out.value.size)

\* a download of 7 bytes to a file has succeeded
C14_Witness ==
    /\ Downloaded
    /\ DownloadPath = Some("out.docx")
    /\ last.out.value.size = 7
    /\ last.out.value.note = "Document saved to out.docx"

\* the outcome of the client operation of the finished call
ClientOut == last.client_out[1]

\* C15: in every DeepLClient operation a vendor exception is never
\* suppressed: after the vendor call raised, the operation returns no success
\* or partial response, it fails with a DeepLAPIError whose cause is the
\* vendor's exception and whose details are absent.
C15_VendorFailureNeverSuppressed ==
    \A i \in 1..Len(last.calls) :
        last.calls[i].resp.raised =>
            /\ last.client_out # None
            /\ ClientOut.kind = "DeepLAPIError"
            /\ ClientOut.cause = last.calls[i].resp.exc
            /\ ClientOut.details = None

\* the vendor refused the credential during detect_language
C15_Witness ==
    /\ VendorRaised("detect_language")
    /\ VendorExc.cls = "AuthorizationException"
    /\ ClientOut.kind = "DeepLAPIError"
    /\ ClientOut.cause = VendorExc

\* C16: no operation retries or fans out: an invocation of a DeepLClient
\* operation makes at most one vendor call, and it returns or fails according
\* to that single response.
C16_AtMostOneVendorCall ==
    /\ Len(last.calls) <= 1
    /\ Len(last.calls) = 1 =>
        /\ last.calls[1].resp.raised <=> ClientOut.kind = "DeepLAPIError"
        /\ ~last.calls[1].resp.raised <=> ClientOut.kind = "return"

\* a listing of the glossaries failed after its one vendor call
C16_Witness ==
    /\ VendorRaised("list_glossaries")
    /\ last.calls[1].method = "list_glossaries"
    /\ ClientOut.kind = "DeepLAPIError"

\* C17: when the client operation of a tool fails with a DeepLAPIError, the
\* tool reports it to the MCP context if there is one and raises that very
\* error, status unchanged; with or without a context it returns no response
\* in place of the failure.
C17_ToolsReportAndReraise ==
    /\ last.tool \in ToolNames
    /\ last.client_out # None
    /\ ClientOut.kind = "DeepLAPIError"
    => /\ last.out = ClientOut
       /\ last.out.status = ClientOut.status
       /\ last.ctx => /\ Len(last.ctx_log) = 1
                      /\ last.ctx_log[1].level = "error"
                      /\ last.ctx_log[1].message = ClientOut.message
       /\ ~last.ctx => last.ctx_log = << >>

\* get_document_status failed at the vendor and the tool had a context
C17_Witness ==
    /\ VendorRaised("get_document_status")
    /\ last.ctx
    /\ last.out.kind = "DeepLAPIError"
    /\ last.ctx_log # << >>
    /\ last.ctx_log[1].prefix = "Error getting document status"

\* C18: translate_with_glossary normalizes the vendor result as translate_text
\* does: for the same vendor result both give the same translations sequence,
\* a single object becoming a one-element sequence; and the vendor call
\* carries the given glossary id.
C18_GlossaryTranslateNormalizesAlike ==
    /\ Succeeded("translate_with_glossary") =>
        /\ last.out.value.translations = ToTranslations(VendorValue)
        /\ VendorValue.shape = "object" => Len(last.out.value.translations) = 1
    /\ last.tool = "translate_with_glossary" /\ Len(last.calls) = 1 =>
        last.calls[1].args.glossary = last.args.glossary_id

\* a batch of two texts was translated with the second glossary
C18_Witness ==
    /\ Succeeded("translate_with_glossary")
    /\ last.args.glossary_id = "g2"
    /\ VendorValue.shape = "list"
    /\ Len(last.out.value.translations) = 2

\* the configuration error get_client raises
ConfigurationError == ValueError("DEEPL_API_KEY is not set - API calls will fail")

\* C19 as stated: while no credential is configured, every invocation of a
\* tool that needs the handle fails with the configuration error, makes no
\* vendor call and leaves the shared handle unconstructed.
C19_NoCredentialAlwaysFails ==
    last.tool \in ToolNames /\ ~TruthyStr(env)
        => /\ last.out = ConfigurationError
           /\ last.calls = << >>
           /\ _client = None

\* C19 as amended: while no credential is configured and the shared handle has
\* not been constructed, every invocation of a tool that needs the handle
\* fails with the configuration error, makes no vendor call and leaves the
\* handle unconstructed; once a credential is supplied, the next invocation
\* constructs the handle and gets past the configuration check.
C19_NoCredentialNoHandleFails ==
    /\ [](last.tool \in ToolNames /\ ~TruthyStr(env) /\ last.before = None
            => /\ last.out = ConfigurationError
               /\ last.calls = << >>
               /\ last.translators = 0
               /\ _client = None)
    /\ [][last'.tool \in ToolNames /\ _client = None /\ TruthyStr(env)
            => /\ _client' # None
               /\ _client'[1].api_token = env[1]
               /\ last'.client = _client'
               /\ last'.out # ConfigurationError]_vars

\* a translation was asked for with DEEPL_API_KEY unset and no handle built
C19_Witness ==
    /\ last.tool = "translate_text"
    /\ env = None
    /\ last.before = None
    /\ last.out = ConfigurationError
    /\ _client = None

\* C20: when several callers invoke get_client concurrently while no handle
\* exists, exactly one vendor handle is constructed and all of them, and all
\* later callers, obtain that one instance: no interleaving of the
\* check-then-create steps produces two handles.
C20_OneHandleForConcurrentCallers ==
    /\ handles <= 1
    /\ _client # None => handles = 1
    /\ \A i \in 1..Len(tasks) :
        tasks[i].client # None => tasks[i].client = _client
    /\ \A i, j \in 1..Len(tasks) :
        tasks[i].client # None /\ tasks[j].client # None
            => tasks[i].client[1].id = tasks[j].client[1].id

\* two calls arrived while there was no handle; the first is suspended in
\* its report to the context while the second has obtained the handle
C20_Witness ==
    /\ Len(tasks) = 2
    /\ tasks[1].before = None /\ tasks[2].before = None
    /\ tasks[1].pc = "report"
    /\ tasks[2].pc = "call"
    /\ tasks[1].client # None
    /\ tasks[2].client = tasks[1].client

\* seq consists of the first n elements of text, or of all of text when it
\* has fewer
IsPrefixOfLength(seq, text, n) ==
    /\ Len(seq) = (IF Len(text) < n THEN Len(text) ELSE n)
    /\ \A i \in 1..Len(seq) : seq[i] = text[i]

\* C21: detect_language sends at most the first 1000 characters of the text
\* to the vendor in one translate call; it returns the detected source
\* language of the vendor's result, of the first element when the result is
\* a list, and none when that list is empty; it echoes the text unchanged
\* when it has at most 100 characters and otherwise its first 100
\* characters followed by '...'.
C21_DetectLanguageTruncates ==
    last.tool = "detect_language" /\ last.client_out # None =>
        /\ Len(last.calls) = 1
        /\ last.calls[1].method = "translate_text"
        /\ Len(last.calls[1].args.text) <= 1000
        /\ IsPrefixOfLength(last.calls[1].args.text, last.args.text, 1000)
        /\ last.out.kind = "return" =>
            /\ last.out.value.detected_language
                   = IF VendorValue.items = << >> THEN None
                     ELSE Some(VendorValue.items[1].detected_source_lang)
            /\ IF Len(last.args.text) <= 100
               THEN last.out.value.text = last.args.text
               ELSE /\ Len(last.out.value.text) = 103
                    /\ IsPrefixOfLength(SubSeq(last.out.value.text, 1, 100),
                                        last.args.text, 100)
                    /\ SubSeq(last.out.value.text, 101, 103) = <<".", ".", ".">>

\* a text of 1001 characters was cut to 1000 for the vendor and to 100 and
\* '...' for the response
C21_Witness ==
    /\ Succeeded("detect_language")
    /\ Len(last.args.text) = 1001
    /\ Len(last.calls[1].args.text) = 1000
    /\ Len(last.out.value.text) = 103

\* C22: detect_language does not apply the fine-grained mapping: an
\* authorization, quota-exceeded or rate-limit failure of the vendor during
\* detect_language gives status 500, like every other vendor failure.
C22_DetectLanguageStatus500 ==
    VendorRaised("detect_language") =>
        /\ ClientOut.kind = "DeepLAPIError"
        /\ ClientOut.status = 500
        /\ last.out.status = 500

\* the vendor limited the rate during detect_language
C22_Witness ==
    /\ VendorRaised("detect_language")
    /\ VendorExc.cls = "TooManyRequestsException"
    /\ last.out.kind = "DeepLAPIError"
    /\ last.out.status = 500

\* every tool the server registers
AllToolNames == ToolNames \cup {"translate_document"}

\* the one client call of the finished tool call
ClientCalled == last.client_calls[1]

\* what C23 says the client operation is given for the tool arguments a
ForwardedWithDefaults(tool, a, given) ==
    /\ tool = "translate_text" =>
        given = [text |-> a.text, target_lang |-> a.target_lang,
                 source_lang |-> a.source_lang, formality |-> a.formality,
                 preserve_formatting |-> IF a.preserve_formatting = None THEN FALSE
                                         ELSE a.preserve_formatting[1],
                 tag_handling |-> a.tag_handling,
                 split_sentences |-> IF a.split_sentences = None THEN "1"
                                     ELSE a.split_sentences[1]]
    /\ tool = "list_languages" =>
        given = [language_type |-> IF a.language_type = None THEN "target"
                                   ELSE a.language_type[1]]
    /\ tool = "create_glossary" =>
        given = [name |-> a.name, source_lang |-> a.source_lang,
                 target_lang |-> a.target_lang, entries |-> a.entries,
                 entries_format |-> IF a.entries_format = None THEN "tsv"
                                    ELSE a.entries_format[1]]
    /\ tool \in {"translate_with_glossary", "detect_language", "get_glossary",
                 "delete_glossary", "get_document_status"} => given = a
    /\ tool \in {"get_usage", "list_glossaries"} => given = << >>
    /\ tool = "download_translated_document" =>
        /\ given.document_id = a.document_id
        /\ given.document_key = a.document_key

\* C23 as stated: every MCP tool forwards its arguments to exactly one client
\* operation, invoked exactly once per tool call, omitted optional arguments
\* filled with the documented defaults.
C23_EveryToolForwardsOnce ==
    last.tool \in AllToolNames =>
        /\ Len(last.client_calls) = 1
        /\ ClientCalled.op = last.tool
        /\ ForwardedWithDefaults(last.tool, last.args, ClientCalled.args)

\* C23 as amended: every MCP tool other than translate_document, once
\* get_client has returned the handle, forwards its arguments to exactly one
\* client operation, invoked exactly once, omitted optional arguments filled
\* with the documented defaults; translate_document, and a call that fails
\* with the configuration error, invoke no client operation.
C23_HandleToolsForwardOnce ==
    /\ last.tool \in ToolNames /\ last.out.kind # "ValueError" =>
        /\ Len(last.client_calls) = 1
        /\ ClientCalled.op = last.tool
        /\ ForwardedWithDefaults(last.tool, last.args, ClientCalled.args)
    /\ last.tool = "translate_document" => last.client_calls = << >>
    /\ last.tool \in ToolNames /\ last.out.kind = "ValueError" =>
        last.client_calls = << >>

\* translate_text was called with only text and target_lang
C23_Witness ==
    /\ last.tool = "translate_text"
    /\ last.args.split_sentences = None
    /\ last.args.preserve_formatting = None
    /\ Len(last.client_calls) = 1
    /\ ClientCalled.args.split_sentences = "1"
    /\ ClientCalled.args.preserve_formatting = FALSE

\* C24: the translate_document tool always returns the fixed placeholder id
\* and key without obtaining the shared handle or calling the vendor: it
\* succeeds for every input, a path without a file and a missing credential
\* included, never constructs the handle and never gives a 404.
C24_TranslateDocumentPlaceholder ==
    last.tool = "translate_document" =>
        /\ last.out.kind = "return"
        /\ last.out.value.document_id = "placeholder_id"
        /\ last.out.value.document_key = "placeholder_key"
        /\ last.calls = << >>
        /\ last.translators = 0
        /\ _client = last.before

\* translate_document was called for a path without a file, with no
\* credential and no handle
C24_Witness ==
    /\ last.tool = "translate_document"
    /\ last.args.document_path = "missing.docx"
    /\ fs["missing.docx"] = None
    /\ env = None
    /\ _client = None
    /\ last.out.kind = "return"

\* C25: delete_glossary returns {success: true, glossary_id: the requested
\* id} only after the vendor's delete returned without error; when the
\* vendor's delete fails the operation fails with status 500 and returns no
\* confirmation, with success = false or otherwise.
C25_DeleteConfirmsOnlyOnSuccess ==
    last.tool = "delete_glossary" =>
        /\ last.out.kind = "return" =>
            /\ Len(last.calls) = 1
            /\ last.calls[1].method = "delete_glossary"
            /\ last.calls[1].args.glossary_id = last.args.glossary_id
            /\ ~last.calls[1].resp.raised
            /\ last.out.value = [success |-> TRUE, glossary_id |-> last.args.glossary_id]
        /\ Len(last.calls) = 1 /\ last.calls[1].resp.raised =>
            /\ last.out.kind = "DeepLAPIError"
            /\ last.out.status = 500

\* the vendor refused to delete the second glossary
C25_Witness ==
    /\ VendorRaised("delete_glossary")
    /\ last.args.glossary_id = "g2"
    /\ last.out.kind = "DeepLAPIError"
    /\ last.out.status = 500

\* C27: every response of get_document_status is consistent: status 'error'
\* implies an error message, 'translating' implies a remaining-time estimate
\* and no error message, 'queued' implies neither; 'done' may carry both.
\* The document_id is the one the caller passed.
C27_StatusResponseConsistent ==
    Succeeded("get_document_status") =>
        LET v == last.out.value
        IN  /\ v.status \in {"queued", "translating", "done", "error"}
            /\ v.status = "error" => v.error_message # None
            /\ v.status = "translating" =>
                   v.seconds_remaining # None /\ v.error_message = None
            /\ v.status = "queued" =>
                   v.seconds_remaining = None /\ v.error_message = None
            /\ v.document_id = last.args.document_id

\* a finished document that still carries an error message and an estimate
C27_Witness ==
    /\ Succeeded("get_document_status")
    /\ last.args.document_id = "doc2"
    /\ last.out.value.status = "done"
    /\ last.out.value.error_message # None
    /\ last.out.value.seconds_remaining # None

\* the HTTP client of the directly used client object has been closed
DirectClientClosed ==
    /\ last.client._translator._client # None
    /\ last.client._translator._client[1].closed

\* C26: leaving the async context of a DeepLClient always invokes close(),
\* also when the body raised; close() does not raise on a client that made no
\* call or that was closed before, however often it is called, and it leaves
\* the client's translator in place.
C26_ContextAlwaysCloses ==
    /\ last.tool = "DeepLClient.__aexit__" =>
        /\ last.closes = 1
        /\ DirectClientClosed
        /\ last.body_exc # None => last.out = last.body_exc[1]
        /\ last.body_exc = None => last.out = Returned(None)
    /\ last.tool = "DeepLClient.close" =>
        /\ last.out = Returned(None)
        /\ DirectClientClosed
    /\ last.tool \in {"DeepLClient.__aexit__", "DeepLClient.close"} =>
        /\ last.client._translator # None
        /\ last.client._translator.auth_key = last.client.api_token

\* close() was called again on a client whose async-with body had raised
C26_Witness ==
    /\ last.tool = "DeepLClient.close"
    /\ last.body_exc # None
    /\ last.closes = 2
    /\ DirectClientClosed

\* C28: download_translated_document with an output path leaves the local
\* files unchanged when it fails: when the vendor's download raises, no file
\* is created at the output path and a file already there keeps its content.
C28_FailedDownloadKeepsFiles ==
    [][/\ last'.tool = "DeepLClient.download_translated_document"
       /\ last' # last
       /\ TruthyStr(last'.args.output_path)
       /\ last'.out.kind = "DeepLAPIError"
       => fs' = fs]_vars

\* the flag list_languages of the client was given
LanguageFlag == ClientCalled.args.language_type

\* C29: list_languages selects the vendor listing by the direction flag
\* alone: the source listing is requested if and only if the flag is exactly
\* "source"; every other value, the default and an unrecognized string
\* included, requests the target listing and is never rejected (the vendor is
\* called once, and the operation fails only when the vendor raised).
C29_ListingByFlagAlone ==
    last.tool = "list_languages" /\ Len(last.client_calls) = 1 =>
        /\ LanguageFlag = IF last.args.language_type = None THEN "target"
                          ELSE last.args.language_type[1]
        /\ Len(last.calls) = 1
        /\ (last.calls[1].method = "get_source_languages") <=> (LanguageFlag = "source")
        /\ LanguageFlag # "source" => last.calls[1].method = "get_target_languages"
        /\ ClientOut.kind # "return" => last.calls[1].resp.raised

\* an unrecognized flag got the target listing
C29_Witness ==
    /\ Succeeded("list_languages")
    /\ last.args.language_type = Some("SOURCE")
    /\ last.calls[1].method = "get_target_languages"
    /\ Len(last.out.value.languages) > 0

\* the split_sentences option translate_text of the client was given
SplitOption == ClientCalled.args.split_sentences

\* C30: translate_text forwards the split_sentences option to the vendor
\* unchanged when it is "0", "1" or "nonewlines", and forwards no value for
\* every other input; an unrecognized value never causes a local failure (the
\* vendor is called once, and the operation fails only when the vendor raised).
C30_SplitSentencesForwarded ==
    last.tool = "translate_text" /\ Len(last.client_calls) = 1 =>
        /\ Len(last.calls) = 1
        /\ last.calls[1].args.split_sentences =
              IF SplitOption \in {"0", "1", "nonewlines"} THEN Some(SplitOption) ELSE None
        /\ ClientOut.kind # "return" => last.calls[1].resp.raised

\* an unrecognized option reached the vendor as no value and was translated
C30_Witness ==
    /\ Succeeded("translate_text")
    /\ last.args.split_sentences = Some("bogus")
    /\ last.calls[1].args.split_sentences = None
    /\ Len(last.out.value.translations) > 0

====
